---- MODULE Spec2Model ----
(***************************************************************************)
(* Stop-high scanner: the streaming scan route (POST), the J-Quants client *)
(* (loadApiKey, getStockListV2, filterTargetMarkets,                       *)
(* getAllStocksLatestPrices, filterStocksByPrice,                          *)
(* getStockPriceThreeMonths) and the detector (detectStopHigh).            *)
(*                                                                         *)
(* Strings that the code inspects are sequences: an instrument code is a   *)
(* sequence of digits, a market-segment name a sequence of words.  Dates   *)
(* are day numbers (the order of ISO date strings is the order of the      *)
(* numbers).  Prices are integers.  An absent (undefined) request field is *)
(* the empty sequence, a present one a one-element sequence.               *)
(***************************************************************************)
EXTENDS Integers, Sequences, FiniteSets, TLC

\* ------------------------------------------------------------------ bounds
\* number of instruments in the large market-wide snapshot
NumCodes == 14

\* --------------------------------------------------------- program constants
DefaultMinPrice == 100
DefaultMaxPrice == 600
MaxErrors == 10
ProgressEvery == 10
MaxDays == 7
\* detection threshold 0.13 as the fraction ThresholdNum / ThresholdDen
ThresholdNum == 13
ThresholdDen == 100
\* the wall-clock day (new Date()) of the scan
Today == 100

\* ------------------------------------------------------------ small helpers
Min2(a, b) == IF a < b THEN a ELSE b

Abs(x) == IF x < 0 THEN 0 - x ELSE x

\* x ?? d
Nullish(x, d) == IF x = <<>> THEN d ELSE x[1]

\* JavaScript truthiness of an optional number
Truthy(x) == x # <<>> /\ x[1] # 0

\* Array.prototype.slice(0, n) for n >= 0
Slice0(s, n) == SubSeq(s, 1, Min2(n, Len(s)))

\* String.prototype.includes, on sequences
Includes(s, t) ==
    \E k \in 0..(Len(s) - Len(t)) : SubSeq(s, k + 1, k + Len(t)) = t

\* ------------------------------------------------------ filterTargetMarkets
targetMarkets == << <<"Prime">>, <<"Standard">>, <<"Growth">> >>

IsTargetMarket(stock) ==
    \E t \in 1..Len(targetMarkets) : Includes(stock.MktNm, targetMarkets[t])

RECURSIVE filterTargetMarkets(_)
filterTargetMarkets(stocks) ==
    IF stocks = <<>> THEN <<>>
    ELSE IF IsTargetMarket(Head(stocks))
         THEN <<Head(stocks)>> \o filterTargetMarkets(Tail(stocks))
         ELSE filterTargetMarkets(Tail(stocks))

\* ------------------------------------------------------------ normalizeCode
RECURSIVE padStart5(_)
padStart5(code) == IF Len(code) >= 5 THEN code ELSE padStart5(<<0>> \o code)

normalizeCode(code) ==
    LET str == padStart5(code)
    IN  IF Len(str) = 5 /\ str[5] = 0 THEN SubSeq(str, 1, 4) ELSE str

\* ------------------------------------------------------ filterStocksByPrice
\* A Map is a sequence of <<key, value>> pairs in insertion order; set() on
\* a key already present replaces the value in place.
MapHas(m, k) == \E j \in 1..Len(m) : m[j][1] = k

MapGet(m, k) == m[CHOOSE j \in 1..Len(m) : m[j][1] = k][2]

MapSet(m, k, v) ==
    IF MapHas(m, k)
    THEN [j \in 1..Len(m) |-> IF m[j][1] = k THEN <<k, v>> ELSE m[j]]
    ELSE Append(m, <<k, v>>)

\* variant: the bar seen last replaces the bar in the map, whatever its date
RECURSIVE BuildLatestPricesMap_LastWins(_, _)
BuildLatestPricesMap_LastWins(prices, m) ==
    IF prices = <<>> THEN m
    ELSE LET price == Head(prices)
             code == normalizeCode(price.Code)
         IN  BuildLatestPricesMap_LastWins(Tail(prices),
                 MapSet(m, code, [price EXCEPT !.Code = code]))

RECURSIVE BuildLatestPricesMap(_, _)
BuildLatestPricesMap(prices, m) ==
    IF prices = <<>> THEN m
    ELSE LET price == Head(prices)
             code == normalizeCode(price.Code)
         IN  IF ~MapHas(m, code) \/ price.Date > MapGet(m, code).Date
             THEN BuildLatestPricesMap(Tail(prices),
                      MapSet(m, code, [price EXCEPT !.Code = code]))
             ELSE BuildLatestPricesMap(Tail(prices), m)

RECURSIVE BuildStockMap(_, _)
BuildStockMap(stocks, m) ==
    IF stocks = <<>> THEN m
    ELSE BuildStockMap(Tail(stocks),
             MapSet(m, normalizeCode(Head(stocks).Code), Head(stocks)))

\* variant: the lower bound is exclusive
RECURSIVE PriceRows_ExclusiveMin(_, _, _, _)
PriceRows_ExclusiveMin(entries, stockMap, minPrice, maxPrice) ==
    IF entries = <<>> THEN <<>>
    ELSE LET code == Head(entries)[1]
             price == Head(entries)[2]
             rest == PriceRows_ExclusiveMin(Tail(entries), stockMap, minPrice, maxPrice)
         IN  IF price.Close > minPrice /\ price.Close <= maxPrice
             THEN << [code |-> code,
                      companyName |-> IF MapHas(stockMap, code)
                                      THEN MapGet(stockMap, code).CoName
                                      ELSE <<>>,
                      market |-> IF MapHas(stockMap, code)
                                 THEN MapGet(stockMap, code).MktNm
                                 ELSE <<>>,
                      latestPrice |-> price.Close] >> \o rest
             ELSE rest

RECURSIVE PriceRows(_, _, _, _)
PriceRows(entries, stockMap, minPrice, maxPrice) ==
    IF entries = <<>> THEN <<>>
    ELSE LET code == Head(entries)[1]
             price == Head(entries)[2]
             rest == PriceRows(Tail(entries), stockMap, minPrice, maxPrice)
         IN  IF price.Close >= minPrice /\ price.Close <= maxPrice
             THEN << [code |-> code,
                      companyName |-> IF MapHas(stockMap, code)
                                      THEN MapGet(stockMap, code).CoName
                                      ELSE <<>>,
                      market |-> IF MapHas(stockMap, code)
                                 THEN MapGet(stockMap, code).MktNm
                                 ELSE <<>>,
                      latestPrice |-> price.Close] >> \o rest
             ELSE rest

filterStocksByPrice(prices, stocks, minPrice, maxPrice) ==
    IF prices = <<>> THEN <<>>
    ELSE PriceRows(BuildLatestPricesMap(prices, <<>>),
                   BuildStockMap(stocks, <<>>), minPrice, maxPrice)

\* ---------------------------------------------------------- detectStopHigh
\* variant: the comparison with the threshold is strict
RateAtLeast_Strict(a, b, tn, td) ==
    IF b > 0 THEN a * td > tn * b ELSE a > 0

\* a / b >= tn / td, for b >= 0 (x / 0 is Infinity or NaN)
RateAtLeast(a, b, tn, td) ==
    IF b > 0 THEN a * td >= tn * b ELSE a > 0

\* [...prices].sort((a, b) => a.Date.localeCompare(b.Date)): stable
RECURSIVE InsertByDate(_, _)
InsertByDate(sorted, bar) ==
    IF sorted = <<>> THEN <<bar>>
    ELSE IF Head(sorted).Date <= bar.Date
         THEN <<Head(sorted)>> \o InsertByDate(Tail(sorted), bar)
         ELSE <<bar>> \o sorted

\* variant: the bars are taken in the order given
SortByDate_AsGiven(prices) == prices

RECURSIVE SortByDate(_)
SortByDate(prices) ==
    IF prices = <<>> THEN <<>>
    ELSE InsertByDate(SortByDate(SubSeq(prices, 1, Len(prices) - 1)),
                      prices[Len(prices)])

ZeroResult ==
    [count |-> 0, latestDate |-> <<>>, latestPrice |-> <<>>,
     prevDayStopHigh |-> FALSE, closedAtStopHigh |-> FALSE,
     openingStopHigh |-> FALSE]

RECURSIVE StopHighDays(_, _, _, _)
StopHighDays(sortedPrices, k, tn, td) ==
    IF k > Len(sortedPrices) THEN <<>>
    ELSE LET current == sortedPrices[k]
             prevClose == sortedPrices[k - 1].Close
             rest == StopHighDays(sortedPrices, k + 1, tn, td)
         IN  IF RateAtLeast(current.High - prevClose, prevClose, tn, td)
             THEN << [date |-> current.Date, high |-> current.High,
                      close |-> current.Close, open |-> current.Open,
                      prevClose |-> prevClose] >> \o rest
             ELSE rest

\* variant: a Friday and the Monday after it count as one day apart
DaysDiff_SkipsWeekend(latestDate, prevDate) ==
    IF latestDate - prevDate = 3 THEN 1 ELSE latestDate - prevDate

\* (latestDate.getTime() - prevDate.getTime()) / (1000 * 60 * 60 * 24)
DaysDiff(latestDate, prevDate) == latestDate - prevDate

detectStopHigh(prices, tn, td) ==
    IF prices = <<>> THEN ZeroResult
    ELSE LET stopHighDays == StopHighDays(SortByDate(prices), 2, tn, td)
             n == Len(stopHighDays)
         IN  IF n = 0 THEN ZeroResult
             ELSE LET latestStopHigh == stopHighDays[n]
                  IN  [count |-> n,
                       latestDate |-> <<latestStopHigh.date>>,
                       latestPrice |-> <<latestStopHigh.high>>,
                       prevDayStopHigh |->
                           /\ n >= 2
                           /\ DaysDiff(latestStopHigh.date,
                                       stopHighDays[n - 1].date) <= 1,
                       closedAtStopHigh |->
                           RateAtLeast(latestStopHigh.close - latestStopHigh.prevClose,
                                       latestStopHigh.prevClose, tn, td),
                       openingStopHigh |->
                           /\ Abs(latestStopHigh.open - latestStopHigh.close) = 0
                           /\ RateAtLeast(latestStopHigh.high - latestStopHigh.prevClose,
                                          latestStopHigh.prevClose, tn, td)]

\* ------------------------------------------------- vendor bars -> PriceData
ToPriceData(item) ==
    [Code |-> item.Code, Date |-> item.Date, High |-> item.H, Close |-> item.C,
     Open |-> item.O, Low |-> item.L, Volume |-> item.Vo]

MapPriceData(data) == [k \in 1..Len(data) |-> ToPriceData(data[k])]

\* variant: an empty key file is accepted
loadApiKey_AcceptsEmpty(file) == [threw |-> file = "missing"]

\* ------------------------------------------------------------- loadApiKey
\* keyFile: the state of apikey.txt ("missing", "empty" or "ok")
loadApiKey(file) == [threw |-> file # "ok"]

\* ---------------------------------------------------------- getStockListV2
\* resp.kind: "ok" (HTTP 2xx with a body), "httperror" or "exception"
getStockListV2(resp) ==
    IF resp.kind = "ok" THEN [threw |-> FALSE, value |-> resp.data]
    ELSE [threw |-> TRUE, value |-> <<>>]

\* ------------------------------------------------ getStockPriceThreeMonths
\* variant: the bars are returned in the order received
getStockPriceThreeMonths_Unsorted(resp) ==
    CASE resp.kind = "notfound" -> [threw |-> FALSE, value |-> <<>>]
      [] resp.kind = "httperror" -> [threw |-> TRUE, value |-> <<>>]
      [] resp.kind = "exception" -> [threw |-> ~resp.has404, value |-> <<>>]
      [] OTHER -> [threw |-> FALSE, value |-> MapPriceData(resp.data)]

\* resp.kind: "notfound" (404), "httperror" (any other non-2xx status),
\* "exception" (fetch or json() threw; has404: the message contains "404"),
\* "ok" (HTTP 2xx with a body)
getStockPriceThreeMonths(resp) ==
    CASE resp.kind = "notfound" -> [threw |-> FALSE, value |-> <<>>]
      [] resp.kind = "httperror" -> [threw |-> TRUE, value |-> <<>>]
      [] resp.kind = "exception" -> [threw |-> ~resp.has404, value |-> <<>>]
      [] OTHER -> [threw |-> FALSE, value |-> SortByDate(MapPriceData(resp.data))]

\* ------------------------------------------------------- upstream (J-Quants)
\* The instrument with number k has the 5-character vendor code 13ab0.
VendorCode(k) == <<1, 3, k \div 10, k % 10, 0>>

MarketOf(k) ==
    CASE k % 6 = 0 -> <<"Other">>
      [] k % 6 = 1 -> <<"Prime">>
      [] k % 6 = 2 -> <<"Standard">>
      [] k % 6 = 3 -> <<"Growth">>
      [] k % 6 = 4 -> <<"TSE", "Prime", "Market">>
      [] OTHER -> <<>>

CloseOf(k) ==
    CASE k = 1 -> 100
      [] k = 2 -> 600
      [] k = 3 -> 99
      [] k = 4 -> 601
      [] OTHER -> 300

\* master data: instrument 7 is not listed, instrument 9 is listed under its
\* 4-character code
MasterCodes == SelectSeq([k \in 1..NumCodes |-> k], LAMBDA k : k # 7)

MasterMain ==
    [j \in 1..Len(MasterCodes) |->
        LET k == MasterCodes[j]
        IN  [Code |-> IF k = 9 THEN SubSeq(VendorCode(k), 1, 4) ELSE VendorCode(k),
             CoName |-> <<k>>,
             MktNm |-> MarketOf(k)]]

MasterNoTarget ==
    << [Code |-> VendorCode(6), CoName |-> <<6>>, MktNm |-> <<"Other">>],
       [Code |-> VendorCode(5), CoName |-> <<5>>, MktNm |-> <<>>] >>

DirectoryResponses ==
    { [kind |-> "httperror", data |-> <<>>],
      [kind |-> "exception", data |-> <<>>],
      [kind |-> "ok", data |-> <<>>],
      [kind |-> "ok", data |-> MasterNoTarget],
      [kind |-> "ok", data |-> MasterMain] }

DailyBar(k, d) ==
    [Code |-> VendorCode(k), Date |-> d, H |-> CloseOf(k) + 5, C |-> CloseOf(k),
     O |-> CloseOf(k), L |-> CloseOf(k) - 5, Vo |-> 1000]

DailyMain(d) == [k \in 1..NumCodes |-> DailyBar(k, d)]

DailySmall(d) == [k \in 1..3 |-> DailyBar(k, d)]

ProbeResponses(d) ==
    { [kind |-> "notfound", data |-> <<>>],
      [kind |-> "httperror", data |-> <<>>],
      [kind |-> "exception", data |-> <<>>],
      [kind |-> "ok", data |-> <<>>],
      [kind |-> "ok", data |-> DailySmall(d)],
      [kind |-> "ok", data |-> DailyMain(d)] }

HistBar(code, d, o, h, l, c) ==
    [Code |-> code, Date |-> d, H |-> h, C |-> c, O |-> o, L |-> l, Vo |-> 1000]

\* the price history the source holds for a code, in the order it sends it
HistoryOf(code) ==
    CASE code[4] % 4 = 0 ->
            << HistBar(code, Today - 1, 100, 115, 100, 114),
               HistBar(code, Today - 2, 100, 100, 100, 100) >>
      [] code[4] % 4 = 1 ->
            << HistBar(code, Today - 2, 100, 100, 100, 100),
               HistBar(code, Today - 1, 100, 112, 100, 105) >>
      [] code[4] % 4 = 2 ->
            << HistBar(code, Today - 1, 100, 120, 100, 120) >>
      [] OTHER ->
            << HistBar(code, Today - 3, 100, 100, 100, 100),
               HistBar(code, Today - 1, 128, 128, 128, 128),
               HistBar(code, Today - 2, 113, 113, 113, 113) >>

HistoryResponses(code) ==
    { [kind |-> "notfound", has404 |-> FALSE, data |-> <<>>],
      [kind |-> "httperror", has404 |-> FALSE, data |-> <<>>],
      [kind |-> "exception", has404 |-> FALSE, data |-> <<>>],
      [kind |-> "exception", has404 |-> TRUE, data |-> <<>>],
      [kind |-> "ok", has404 |-> FALSE, data |-> <<>>],
      [kind |-> "ok", has404 |-> FALSE, data |-> HistoryOf(code)] }

\* ------------------------------------------------------------ request bodies
Bodies ==
    { [minPrice |-> <<>>, maxPrice |-> <<>>, maxStocks |-> <<>>, delay |-> <<>>],
      [minPrice |-> <<100>>, maxPrice |-> <<600>>, maxStocks |-> <<0>>, delay |-> <<600>>],
      [minPrice |-> <<>>, maxPrice |-> <<>>, maxStocks |-> <<2>>, delay |-> <<>>],
      [minPrice |-> <<601>>, maxPrice |-> <<>>, maxStocks |-> <<>>, delay |-> <<0>>] }

KeyFiles == {"missing", "empty", "ok"}

\* ------------------------------------------------------------------- state
VARIABLES
    pc,                  \* where start(controller) is suspended
    body,                \* the request body
    keyFile,             \* the state of apikey.txt
    stream,              \* records enqueued: how many of each type, and the last
    closed,              \* controller.close() was called
    closedAt,            \* which close() it was: "noStockList", "noTargetMarket",
                         \* "noPrices", "noPriceFiltered", "result", "catch"
    dirRequests,         \* master-data requests issued
    probes,              \* dates of the daily-bar probes issued, in order
    probePauses,         \* 200 ms pauses completed in getAllStocksLatestPrices
    currentDate,         \* getAllStocksLatestPrices: currentDate
    filteredStocks,      \* POST: filteredStocks
    tradeDate,           \* POST: tradeDate (<<>> is null)
    priceFilteredStocks, \* POST: priceFilteredStocks
    targetStocks,        \* POST: targetStocks
    i,                   \* POST: loop index (from 0)
    errorCount,          \* POST: errorCount
    results,             \* POST: results
    histFetched,         \* codes of the history requests issued, in order
    pausesBeforeFetch,   \* delays completed between the last two history requests
    raised,              \* instruments whose processing raised an exception
    resultData,          \* data of the "result" record enqueued (<<>>: none)
    responses,           \* answers to upstream requests that start() has consumed
    lastAnswer,          \* what the last history request gave: "none" (no request
                         \* answered yet), "raised", "empty" or "series"
    fnIn,                \* a function under study on its own: its arguments
    fnOut,               \* ... and what it returned (<<>>: not yet)
    unread,              \* handleExecute: the part of the response body not yet read
    buffer,              \* handleExecute: buffer
    handled              \* handleExecute: the addLog and setResults calls made, in order

vars == <<pc, body, keyFile, stream, closed, closedAt, dirRequests, probes, probePauses,
          currentDate, filteredStocks, tradeDate, priceFilteredStocks,
          targetStocks, i, errorCount, results, histFetched,
          pausesBeforeFetch, raised, resultData, responses, lastAnswer,
          fnIn, fnOut, unread, buffer, handled>>

\* handleExecute is not running
ClientIdle ==
    /\ unread = <<>>
    /\ buffer = <<>>
    /\ handled = <<>>

clientVars == <<unread, buffer, handled>>

\* ------------------------------------------------------------ sendProgress
EmptyStream == [log |-> 0, error |-> 0, result |-> 0, last |-> "none"]

sendProgress(st, type) == [st EXCEPT ![type] = @ + 1, !.last = type]

RECURSIVE sendProgressN(_, _, _)
sendProgressN(st, n, type) ==
    IF n = 0 THEN st ELSE sendProgressN(sendProgress(st, type), n - 1, type)

StreamLen(st) == st.log + st.error + st.result

\* ---------------------------------------------------------- POST: the pieces
\* const targetStocks = maxStocks ? priceFilteredStocks.slice(0, maxStocks)
\*                                : priceFilteredStocks
TargetStocks(maxStocks, filtered) ==
    IF Truthy(maxStocks) THEN Slice0(filtered, maxStocks[1]) ELSE filtered

\* variant: the summary counts the instruments the loop has started
FinalResult_CountsStarted(td, tgt, res, ec) ==
    [success |-> TRUE, tradeDate |-> td, results |-> res,
     summary |-> [targetStocks |-> Len(histFetched), detected |-> Len(res),
                  errors |-> ec]]

\* the data of the final record; the summary's keys are, in the source,
\* "number of target instruments", "number of instruments with a stop high"
\* and "number of errors"
FinalResult(td, tgt, res, ec) ==
    [success |-> TRUE, tradeDate |-> td, results |-> res,
     summary |-> [targetStocks |-> Len(tgt), detected |-> Len(res),
                  errors |-> ec]]

ResultRow(stockInfo, stockPrices, d) ==
    [code |-> stockInfo.code, companyName |-> stockInfo.companyName,
     market |-> stockInfo.market, count |-> d.count,
     latestDate |-> d.latestDate, latestPrice |-> d.latestPrice,
     latestClose |-> <<stockPrices[Len(stockPrices)].Close>>,
     prevDayStopHigh |-> d.prevDayStopHigh,
     closedAtStopHigh |-> d.closedAtStopHigh,
     openingStopHigh |-> d.openingStopHigh]

\* variant: the budget test is errorCount > 10
ProcessInstrument_BudgetOffByOne(resp, stockInfo, j, n, st, res, ec) ==
    LET r == getStockPriceThreeMonths(resp)
    IN  IF r.threw
        THEN LET st1 == sendProgress(st, "error")
             IN  IF ec + 1 > MaxErrors
                 THEN [stream |-> sendProgress(st1, "error"), results |-> res,
                       errorCount |-> ec + 1, next |-> "break"]
                 ELSE [stream |-> st1, results |-> res, errorCount |-> ec + 1,
                       next |-> IF j < n - 1 THEN "delay" ELSE "next"]
        ELSE IF Len(r.value) = 0
        THEN [stream |-> sendProgress(st, "log"), results |-> res,
              errorCount |-> ec, next |-> "next"]
        ELSE LET d == detectStopHigh(r.value, ThresholdNum, ThresholdDen)
                 st1 == sendProgress(st, "log")
             IN  [stream |-> IF (j + 1) % ProgressEvery = 0
                             THEN sendProgress(st1, "log") ELSE st1,
                  results |-> IF d.count > 0
                              THEN Append(res, ResultRow(stockInfo, r.value, d))
                              ELSE res,
                  errorCount |-> ec,
                  next |-> IF j < n - 1 THEN "delay" ELSE "next"]

\* variant: any exception ends the loop
ProcessInstrument_AbortOnFirstError(resp, stockInfo, j, n, st, res, ec) ==
    LET r == getStockPriceThreeMonths(resp)
    IN  IF r.threw
        THEN [stream |-> sendProgress(st, "error"), results |-> res,
              errorCount |-> ec + 1, next |-> "break"]
        ELSE ProcessInstrument_BudgetOffByOne(resp, stockInfo, j, n, st, res, ec)

\* variant: an empty history is counted as a failure
ProcessInstrument_NoDataCounts(resp, stockInfo, j, n, st, res, ec) ==
    LET r == getStockPriceThreeMonths(resp)
        o == ProcessInstrument_BudgetOffByOne(resp, stockInfo, j, n, st, res, ec)
    IN  IF ~r.threw /\ Len(r.value) = 0
        THEN [o EXCEPT !.errorCount = ec + 1]
        ELSE IF r.threw /\ ec + 1 = MaxErrors
        THEN [stream |-> sendProgressN(st, 2, "error"), results |-> res,
              errorCount |-> ec + 1, next |-> "break"]
        ELSE o

\* One pass through the body of the for loop, from the response to the history
\* request up to the next suspension: next is "delay" (the setTimeout),
\* "next" (on to i + 1 with no delay) or "break".
ProcessInstrument(resp, stockInfo, j, n, st, res, ec) ==
    LET r == getStockPriceThreeMonths(resp)
    IN  IF r.threw
        THEN LET st1 == sendProgress(st, "error")
             IN  IF ec + 1 >= MaxErrors
                 THEN [stream |-> sendProgress(st1, "error"), results |-> res,
                       errorCount |-> ec + 1, next |-> "break"]
                 ELSE [stream |-> st1, results |-> res, errorCount |-> ec + 1,
                       next |-> IF j < n - 1 THEN "delay" ELSE "next"]
        ELSE IF Len(r.value) = 0
        THEN [stream |-> sendProgress(st, "log"), results |-> res,
              errorCount |-> ec, next |-> "next"]
        ELSE LET d == detectStopHigh(r.value, ThresholdNum, ThresholdDen)
                 st1 == sendProgress(st, "log")
             IN  [stream |-> IF (j + 1) % ProgressEvery = 0
                             THEN sendProgress(st1, "log") ELSE st1,
                  results |-> IF d.count > 0
                              THEN Append(res, ResultRow(stockInfo, r.value, d))
                              ELSE res,
                  errorCount |-> ec,
                  next |-> IF j < n - 1 THEN "delay" ELSE "next"]

\* the records between the end of the loop and the final record
SummaryLogs(st, res) ==
    sendProgressN(st, 5 + (IF Len(res) > 0 THEN 1 + Len(res) ELSE 1), "log")

\* variant: the message is sent with the default type
Stop_AsLog(st, at) ==
    /\ stream' = sendProgress(st, "log")
    /\ closed' = TRUE
    /\ closedAt' = at
    /\ pc' = "done"

\* an "error" record followed by controller.close()
Stop(st, at) ==
    /\ stream' = sendProgress(st, "error")
    /\ closed' = TRUE
    /\ closedAt' = at
    /\ pc' = "done"

\* variant: after an abort on the failure budget no final record is sent
Finish_NoResultOnAbort(st, td, tgt, res, ec) ==
    /\ stream' = IF ec >= MaxErrors THEN SummaryLogs(st, res)
                 ELSE sendProgress(SummaryLogs(st, res), "result")
    /\ resultData' = IF ec >= MaxErrors THEN resultData
                     ELSE <<FinalResult(td, tgt, res, ec)>>
    /\ closed' = TRUE
    /\ closedAt' = "result"
    /\ pc' = "done"
    /\ UNCHANGED <<histFetched, pausesBeforeFetch>>

\* the end of the loop: the summary, the final record, controller.close()
Finish(st, td, tgt, res, ec) ==
    /\ stream' = sendProgress(SummaryLogs(st, res), "result")
    /\ resultData' = <<FinalResult(td, tgt, res, ec)>>
    /\ closed' = TRUE
    /\ closedAt' = "result"
    /\ pc' = "done"
    /\ UNCHANGED <<histFetched, pausesBeforeFetch>>

\* variant: the history of the following instrument is requested as well
LoopHead_TwoAtOnce(st, j, td, tgt, res, ec, pauses) ==
    /\ i' = j
    /\ IF j < Len(tgt)
       THEN /\ stream' = sendProgress(st, "log")
            /\ histFetched' =
                  IF j + 1 < Len(tgt)
                  THEN histFetched \o <<tgt[j + 1].code, tgt[j + 2].code>>
                  ELSE Append(histFetched, tgt[j + 1].code)
            /\ pausesBeforeFetch' = pauses
            /\ pc' = "awaitHistory"
            /\ UNCHANGED <<closed, closedAt, resultData>>
       ELSE Finish(st, td, tgt, res, ec)

\* the head of the for loop with i = j: the next history request, or the end
LoopHead(st, j, td, tgt, res, ec, pauses) ==
    /\ i' = j
    /\ IF j < Len(tgt)
       THEN /\ stream' = sendProgress(st, "log")
            /\ histFetched' = Append(histFetched, tgt[j + 1].code)
            /\ pausesBeforeFetch' = pauses
            /\ pc' = "awaitHistory"
            /\ UNCHANGED <<closed, closedAt, resultData>>
       ELSE Finish(st, td, tgt, res, ec)

\* getAllStocksLatestPrices: the head of the while loop
ProbeLoopHead(date) ==
    /\ currentDate' = date
    /\ IF date >= Today - MaxDays
       THEN /\ probes' = Append(probes, date)
            /\ pc' = "awaitProbe"
            /\ UNCHANGED <<stream, closed, closedAt>>
       ELSE /\ Stop(stream, "noPrices")
            /\ UNCHANGED probes

\* ------------------------------------------------------------------ actions
Init ==
    /\ pc = "start"
    /\ body \in Bodies
    /\ keyFile \in KeyFiles
    /\ stream = EmptyStream
    /\ closed = FALSE
    /\ closedAt = "open"
    /\ dirRequests = 0
    /\ probes = <<>>
    /\ probePauses = 0
    /\ currentDate = Today
    /\ filteredStocks = <<>>
    /\ tradeDate = <<>>
    /\ priceFilteredStocks = <<>>
    /\ targetStocks = <<>>
    /\ i = 0
    /\ errorCount = 0
    /\ results = <<>>
    /\ histFetched = <<>>
    /\ pausesBeforeFetch = 0
    /\ raised = 0
    /\ resultData = <<>>
    /\ responses = 0
    /\ lastAnswer = "none"
    /\ fnIn = <<>>
    /\ fnOut = <<>>
    /\ ClientIdle

\* from the request up to the master-data request (or the failure of loadApiKey)
Start ==
    /\ pc = "start"
    /\ LET st == sendProgressN(stream, 2, "log")
       IN  IF loadApiKey(keyFile).threw
           THEN /\ Stop(st, "catch")
                /\ UNCHANGED dirRequests
           ELSE /\ stream' = sendProgressN(st, 2, "log")
                /\ dirRequests' = dirRequests + 1
                /\ pc' = "awaitDirectory"
                /\ UNCHANGED <<closed, closedAt>>
    /\ UNCHANGED responses
    /\ UNCHANGED <<fnIn, fnOut>>
    /\ UNCHANGED clientVars
    /\ UNCHANGED lastAnswer
    /\ UNCHANGED <<body, keyFile, probes, probePauses, currentDate,
                   filteredStocks, tradeDate, priceFilteredStocks, targetStocks,
                   i, errorCount, results, histFetched, pausesBeforeFetch,
                   raised, resultData>>

\* the master data arrives: filterTargetMarkets, then the first probe
DirectoryResponse ==
    /\ pc = "awaitDirectory"
    /\ \E resp \in DirectoryResponses :
          LET r == getStockListV2(resp)
              filtered == filterTargetMarkets(r.value)
          IN  IF r.threw \/ Len(r.value) = 0
              THEN /\ Stop(stream, IF r.threw THEN "catch" ELSE "noStockList")
                   /\ UNCHANGED <<filteredStocks, probes, currentDate>>
              ELSE IF Len(filtered) = 0
              THEN /\ Stop(sendProgressN(stream, 2, "log"), "noTargetMarket")
                   /\ UNCHANGED <<filteredStocks, probes, currentDate>>
              ELSE /\ filteredStocks' = filtered
                   /\ stream' = sendProgressN(stream, 4, "log")
                   /\ currentDate' = Today
                   /\ probes' = Append(probes, Today)
                   /\ pc' = "awaitProbe"
                   /\ UNCHANGED <<closed, closedAt>>
    /\ responses' = responses + 1
    /\ UNCHANGED <<fnIn, fnOut>>
    /\ UNCHANGED clientVars
    /\ UNCHANGED lastAnswer
    /\ UNCHANGED <<body, keyFile, dirRequests, probePauses, tradeDate,
                   priceFilteredStocks, targetStocks, i, errorCount, results,
                   histFetched, pausesBeforeFetch, raised, resultData>>

\* the answer to a probe: a nonempty bar set ends getAllStocksLatestPrices and
\* POST goes on to the price filter and the first history request; anything
\* else steps one day back and pauses
ProbeResponse ==
    /\ pc = "awaitProbe"
    /\ \E resp \in ProbeResponses(currentDate) :
          IF resp.kind = "ok" /\ Len(resp.data) > 0
          THEN LET prices == MapPriceData(resp.data)
                   td == <<currentDate>>
                   st == sendProgressN(stream, 2, "log")
                   filtered == filterStocksByPrice(prices, filteredStocks,
                                   Nullish(body.minPrice, DefaultMinPrice),
                                   Nullish(body.maxPrice, DefaultMaxPrice))
                   tgt == TargetStocks(body.maxStocks, filtered)
                   limited == Truthy(body.maxStocks) /\ body.maxStocks[1] < Len(filtered)
               IN  /\ tradeDate' = td
                   /\ priceFilteredStocks' = filtered
                   /\ UNCHANGED currentDate
                   /\ IF Len(filtered) = 0
                      THEN /\ Stop(st, "noPriceFiltered")
                           /\ UNCHANGED <<targetStocks, i, histFetched,
                                          pausesBeforeFetch, resultData>>
                      ELSE /\ targetStocks' = tgt
                           /\ LoopHead(sendProgressN(st, IF limited THEN 4 ELSE 3, "log"),
                                       0, td, tgt, <<>>, 0, 0)
          ELSE /\ currentDate' = currentDate - 1
               /\ pc' = "probeSleep"
               /\ UNCHANGED <<stream, closed, closedAt, tradeDate, priceFilteredStocks,
                              targetStocks, i, histFetched, pausesBeforeFetch,
                              resultData>>
    /\ responses' = responses + 1
    /\ UNCHANGED <<fnIn, fnOut>>
    /\ UNCHANGED clientVars
    /\ UNCHANGED lastAnswer
    /\ UNCHANGED <<body, keyFile, dirRequests, probes, probePauses,
                   filteredStocks, errorCount, results, raised>>

\* the 200 ms pause is over: the next probe, or the empty result
ProbePauseDone ==
    /\ pc = "probeSleep"
    /\ probePauses' = probePauses + 1
    /\ ProbeLoopHead(currentDate)
    /\ UNCHANGED responses
    /\ UNCHANGED <<fnIn, fnOut>>
    /\ UNCHANGED clientVars
    /\ UNCHANGED lastAnswer
    /\ UNCHANGED <<body, keyFile, dirRequests, filteredStocks, tradeDate,
                   priceFilteredStocks, targetStocks, i, errorCount, results,
                   histFetched, pausesBeforeFetch, raised, resultData>>

\* the answer to the history request of targetStocks[i]
HistoryResponse ==
    /\ pc = "awaitHistory"
    /\ \E resp \in HistoryResponses(targetStocks[i + 1].code) :
          LET o == ProcessInstrument(resp, targetStocks[i + 1], i,
                                     Len(targetStocks), stream, results, errorCount)
          IN  /\ results' = o.results
              /\ errorCount' = o.errorCount
              /\ raised' = IF getStockPriceThreeMonths(resp).threw
                           THEN raised + 1 ELSE raised
              /\ lastAnswer' = IF getStockPriceThreeMonths(resp).threw
                               THEN "raised"
                               ELSE IF Len(getStockPriceThreeMonths(resp).value) = 0
                               THEN "empty" ELSE "series"
              /\ CASE o.next = "delay" ->
                        /\ stream' = o.stream
                        /\ pc' = "delay"
                        /\ UNCHANGED <<i, closed, closedAt, histFetched, pausesBeforeFetch,
                                       resultData>>
                   [] o.next = "break" ->
                        /\ Finish(o.stream, tradeDate, targetStocks, o.results,
                                  o.errorCount)
                        /\ UNCHANGED i
                   [] OTHER ->
                        LoopHead(o.stream, i + 1, tradeDate, targetStocks,
                                 o.results, o.errorCount, 0)
    /\ responses' = responses + 1
    /\ UNCHANGED <<fnIn, fnOut>>
    /\ UNCHANGED clientVars
    /\ UNCHANGED <<body, keyFile, dirRequests, probes, probePauses, currentDate,
                   filteredStocks, tradeDate, priceFilteredStocks, targetStocks>>

\* the inter-instrument delay is over: i++ and the head of the loop
DelayDone ==
    /\ pc = "delay"
    /\ LoopHead(stream, i + 1, tradeDate, targetStocks, results, errorCount, 1)
    /\ UNCHANGED responses
    /\ UNCHANGED <<fnIn, fnOut>>
    /\ UNCHANGED clientVars
    /\ UNCHANGED lastAnswer
    /\ UNCHANGED <<body, keyFile, dirRequests, probes, probePauses, currentDate,
                   filteredStocks, tradeDate, priceFilteredStocks, targetStocks,
                   errorCount, results, raised>>

Next ==
    \/ Start
    \/ DirectoryResponse
    \/ ProbeResponse
    \/ ProbePauseDone
    \/ HistoryResponse
    \/ DelayDone

Spec == Init /\ [][Next]_vars

\* ================================================= the functions on their own
\* While one function is studied on its own, start() is not running: its
\* variables keep these values.
ScanIdle ==
    /\ body = [minPrice |-> <<>>, maxPrice |-> <<>>, maxStocks |-> <<>>, delay |-> <<>>]
    /\ keyFile = "ok"
    /\ stream = EmptyStream
    /\ closed = FALSE
    /\ closedAt = "open"
    /\ dirRequests = 0
    /\ filteredStocks = <<>>
    /\ tradeDate = <<>>
    /\ priceFilteredStocks = <<>>
    /\ targetStocks = <<>>
    /\ i = 0
    /\ errorCount = 0
    /\ results = <<>>
    /\ histFetched = <<>>
    /\ pausesBeforeFetch = 0
    /\ raised = 0
    /\ resultData = <<>>
    /\ responses = 0
    /\ lastAnswer = "none"

scanVars == <<body, keyFile, stream, closed, closedAt, dirRequests,
              filteredStocks, tradeDate, priceFilteredStocks, targetStocks, i,
              errorCount, results, histFetched, pausesBeforeFetch, raised,
              resultData, responses, lastAnswer>>

\* ------------------------------------------------ getAllStocksLatestPrices
\* largest maxDays argument tried
MaxLookback == 7

\* The daily-bar source: hasData[d] says whether it answers the probe for day
\* d with a nonempty bar set; the days go one beyond the lookback window.
ResolverInputs ==
    UNION { { [maxDays |-> m, hasData |-> h] :
                h \in [(Today - m - 1)..Today -> BOOLEAN] } : m \in 0..MaxLookback }

SourceAnswers(in, d) ==
    IF in.hasData[d]
    THEN { [kind |-> "ok", data |-> DailySmall(d)] }
    ELSE { [kind |-> "notfound", data |-> <<>>],
           [kind |-> "httperror", data |-> <<>>],
           [kind |-> "exception", data |-> <<>>],
           [kind |-> "ok", data |-> <<>>] }

\* variant: the loop runs one day further
InLookback_OneMore(date, maxDays) == date >= Today - maxDays - 1

\* while (currentDate >= startDate), with startDate = endDate - maxDays
InLookback(date, maxDays) == date >= Today - maxDays

\* variant: an empty success does not step back a day
ProbeBranch_StaysOnEmpty(resp) ==
    IF resp.kind = "ok" /\ Len(resp.data) > 0
    THEN [return |-> TRUE, back |-> 0, pause |-> FALSE]
    ELSE [return |-> FALSE, back |-> IF resp.kind = "ok" THEN 0 ELSE 1,
          pause |-> TRUE]

\* variant: no pause after a not-found answer
ProbeBranch_NoPauseOnNotFound(resp) ==
    IF resp.kind = "ok" /\ Len(resp.data) > 0
    THEN [return |-> TRUE, back |-> 0, pause |-> FALSE]
    ELSE [return |-> FALSE, back |-> 1, pause |-> resp.kind # "notfound"]

\* the body of the while loop after the answer: return the bars, or step
\* back days and pause
ProbeBranch(resp) ==
    CASE resp.kind = "notfound" -> [return |-> FALSE, back |-> 1, pause |-> TRUE]
      [] resp.kind = "httperror" -> [return |-> FALSE, back |-> 1, pause |-> TRUE]
      [] resp.kind = "exception" -> [return |-> FALSE, back |-> 1, pause |-> TRUE]
      [] resp.kind = "ok" /\ Len(resp.data) > 0 ->
            [return |-> TRUE, back |-> 0, pause |-> FALSE]
      [] OTHER -> [return |-> FALSE, back |-> 1, pause |-> TRUE]

ResolverLoopHead(date) ==
    /\ currentDate' = date
    /\ IF InLookback(date, fnIn.maxDays)
       THEN /\ probes' = Append(probes, date)
            /\ pc' = "probing"
            /\ UNCHANGED fnOut
       ELSE /\ fnOut' = << [prices |-> <<>>, tradeDate |-> <<>>] >>
            /\ pc' = "returned"
            /\ UNCHANGED probes

InitResolver ==
    /\ ScanIdle
    /\ ClientIdle
    /\ pc = "call"
    /\ fnIn \in ResolverInputs
    /\ fnOut = <<>>
    /\ probes = <<>>
    /\ probePauses = 0
    /\ currentDate = Today

ResolverCall ==
    /\ pc = "call"
    /\ ResolverLoopHead(Today)
    /\ UNCHANGED <<fnIn, probePauses>>
    /\ UNCHANGED scanVars
    /\ UNCHANGED clientVars

ResolverProbeResponse ==
    /\ pc = "probing"
    /\ \E resp \in SourceAnswers(fnIn, currentDate) :
          LET b == ProbeBranch(resp)
          IN  IF b.return
              THEN /\ fnOut' = << [prices |-> MapPriceData(resp.data),
                                   tradeDate |-> <<currentDate>>] >>
                   /\ pc' = "returned"
                   /\ UNCHANGED <<currentDate, probes>>
              ELSE IF b.pause
              THEN /\ currentDate' = currentDate - b.back
                   /\ pc' = "pausing"
                   /\ UNCHANGED <<fnOut, probes>>
              ELSE ResolverLoopHead(currentDate - b.back)
    /\ UNCHANGED <<fnIn, probePauses>>
    /\ UNCHANGED scanVars
    /\ UNCHANGED clientVars

ResolverPauseDone ==
    /\ pc = "pausing"
    /\ probePauses' = probePauses + 1
    /\ ResolverLoopHead(currentDate)
    /\ UNCHANGED fnIn
    /\ UNCHANGED scanVars
    /\ UNCHANGED clientVars

NextResolver ==
    \/ ResolverCall
    \/ ResolverProbeResponse
    \/ ResolverPauseDone

SpecResolver == InitResolver /\ [][NextResolver]_vars

\* every probe is answered and every pause ends
FairResolver == SpecResolver /\ WF_vars(NextResolver)

\* ------------------------------------------------------------ normalizeCode
\* largest digit of the codes tried
MaxDigit == 2

\* the 4- and 5-character codes over the digits 0..MaxDigit
Codes == [1..4 -> 0..MaxDigit] \cup [1..5 -> 0..MaxDigit]

InitNormalize ==
    /\ ScanIdle
    /\ ClientIdle
    /\ pc = "call"
    /\ fnIn \in Codes
    /\ fnOut = <<>>
    /\ probes = <<>>
    /\ probePauses = 0
    /\ currentDate = Today

NormalizeReturn ==
    /\ pc = "call"
    /\ fnOut' = <<normalizeCode(fnIn)>>
    /\ pc' = "returned"
    /\ UNCHANGED <<fnIn, probes, probePauses, currentDate>>
    /\ UNCHANGED scanVars
    /\ UNCHANGED clientVars

NextNormalize == NormalizeReturn

SpecNormalize == InitNormalize /\ [][NextNormalize]_vars

\* ------------------------------------------------------ filterStocksByPrice
\* longest list of bars tried
MaxBars == 3

CodeA == <<1, 3, 0, 1, 0>>

CodeB == <<1, 3, 0, 2, 0>>

SnapshotBars ==
    { [Code |-> c, Date |-> d, High |-> p + 5, Close |-> p, Open |-> p,
       Low |-> p - 5, Volume |-> 1000] :
         c \in {CodeA, CodeB}, d \in {Today - 1, Today},
         p \in {DefaultMinPrice, DefaultMaxPrice} }

PriceBands ==
    { <<DefaultMinPrice, DefaultMaxPrice>>,
      <<DefaultMinPrice + 1, DefaultMaxPrice>>,
      <<DefaultMinPrice, DefaultMaxPrice - 1>> }

StockLists ==
    { <<>>, << [Code |-> CodeA, CoName |-> <<1>>, MktNm |-> <<"Prime">>] >> }

PriceFilterInputs ==
    { [prices |-> ps, stocks |-> st, minPrice |-> b[1], maxPrice |-> b[2]] :
        ps \in UNION { [1..n -> SnapshotBars] : n \in 0..MaxBars },
        st \in StockLists, b \in PriceBands }

InitPriceFilter ==
    /\ ScanIdle
    /\ ClientIdle
    /\ pc = "call"
    /\ fnIn \in PriceFilterInputs
    /\ fnOut = <<>>
    /\ probes = <<>>
    /\ probePauses = 0
    /\ currentDate = Today

PriceFilterReturn ==
    /\ pc = "call"
    /\ fnOut' = << filterStocksByPrice(fnIn.prices, fnIn.stocks,
                                       fnIn.minPrice, fnIn.maxPrice) >>
    /\ pc' = "returned"
    /\ UNCHANGED <<fnIn, probes, probePauses, currentDate>>
    /\ UNCHANGED scanVars
    /\ UNCHANGED clientVars

NextPriceFilter == PriceFilterReturn

SpecPriceFilter == InitPriceFilter /\ [][NextPriceFilter]_vars

\* ---------------------------------------------------------- detectStopHigh
\* longest series tried
MaxSeries == 3

\* open, high, close of the bars tried
BarShapes ==
    { <<100, 112, 100>>, <<100, 113, 113>>, <<113, 113, 113>>, <<100, 113, 100>> }

\* the dates leave gaps of one, two and three days
SeriesDates == {Today - 5, Today - 4, Today - 3, Today - 1}

SeriesBars ==
    { [Code |-> <<1, 3, 0, 1>>, Date |-> d, High |-> sh[2], Close |-> sh[3],
       Open |-> sh[1], Low |-> 100, Volume |-> 1000] :
         d \in SeriesDates, sh \in BarShapes }

\* thresholds, as fractions: 0.13 and 0.1
Thresholds == { <<ThresholdNum, ThresholdDen>>, <<1, 10>> }

DetectInputs ==
    { [prices |-> ps, tn |-> t[1], td |-> t[2]] :
        ps \in UNION { [1..n -> SeriesBars] : n \in 0..MaxSeries },
        t \in Thresholds }

\* the caller's array after the call: the sort is made on a copy ([...prices])
ArrayAfterDetect(prices) == prices

InitDetect ==
    /\ ScanIdle
    /\ ClientIdle
    /\ pc = "call"
    /\ fnIn \in DetectInputs
    /\ fnOut = <<>>
    /\ probes = <<>>
    /\ probePauses = 0
    /\ currentDate = Today

DetectReturn ==
    /\ pc = "call"
    /\ fnOut' = << [result |-> detectStopHigh(fnIn.prices, fnIn.tn, fnIn.td),
                    prices |-> ArrayAfterDetect(fnIn.prices)] >>
    /\ pc' = "returned"
    /\ UNCHANGED <<fnIn, probes, probePauses, currentDate>>
    /\ UNCHANGED scanVars
    /\ UNCHANGED clientVars

NextDetect == DetectReturn

SpecDetect == InitDetect /\ [][NextDetect]_vars

\* ----------------------------------------------------------- handleExecute
\* Text is a sequence of characters. The records of the stream are written
\* with three characters: an opening brace, a letter for the content, and a
\* closing brace.
NL == "\n"

\* most lines in a response body tried
MaxLines == 3

\* {"type":"log",...}, {"type":"error",...}, {"type":"result","data":{success,
\* results: [row, ...]}}, and the same with results: []
RecordOf(letter) ==
    CASE letter = "l" -> [type |-> "log", message |-> "m"]
      [] letter = "e" -> [type |-> "error", message |-> "m"]
      [] letter = "r" -> [type |-> "result",
                          data |-> [success |-> TRUE, results |-> <<"row">>]]
      [] letter = "z" -> [type |-> "result",
                          data |-> [success |-> TRUE, results |-> <<>>]]

RecordLetters == {"l", "e", "r", "z"}

RECURSIVE TrimStart(_)
TrimStart(text) ==
    IF text # <<>> /\ Head(text) = " " THEN TrimStart(Tail(text)) ELSE text

RECURSIVE TrimEnd(_)
TrimEnd(text) ==
    IF text # <<>> /\ text[Len(text)] = " "
    THEN TrimEnd(SubSeq(text, 1, Len(text) - 1)) ELSE text

\* String.prototype.trim
Trim(text) == TrimEnd(TrimStart(text))

\* JSON.parse: white space around the value is allowed, anything that is not
\* one whole value throws
JSONparse(text) ==
    LET t == Trim(text)
    IN  IF Len(t) = 3 /\ t[1] = "{" /\ t[2] \in RecordLetters /\ t[3] = "}"
        THEN [threw |-> FALSE, value |-> RecordOf(t[2])]
        ELSE [threw |-> TRUE, value |-> <<>>]

\* String.prototype.split('\n'): always at least one piece
RECURSIVE SplitNL(_)
SplitNL(text) ==
    IF text = <<>> THEN << <<>> >>
    ELSE LET rest == SplitNL(Tail(text))
         IN  IF Head(text) = NL
             THEN << <<>> >> \o rest
             ELSE << <<Head(text)>> \o rest[1] >> \o Tail(rest)

\* the body of the try block: what one parsed record makes the page do
HandleData(h, data) ==
    IF data.type \in {"log", "error"}
    THEN Append(h, [call |-> "addLog", type |-> data.type])
    ELSE IF data.type = "result" /\ data.data.success
            /\ Len(data.data.results) > 0
    THEN Append(h, [call |-> "setResults", type |-> "result"])
    ELSE h

\* one line: skipped when blank, and when JSON.parse throws
HandleLine(h, line) ==
    IF Trim(line) = <<>> THEN h
    ELSE LET r == JSONparse(line)
         IN  IF r.threw THEN h ELSE HandleData(h, r.value)

RECURSIVE HandleLines(_, _)
HandleLines(h, lines) ==
    IF lines = <<>> THEN h
    ELSE HandleLines(HandleLine(h, Head(lines)), Tail(lines))

\* variant: what follows the last newline of a chunk is dropped
Pop_Dropped(lines) == <<>>

\* lines.pop() || ''
Pop(lines) == lines[Len(lines)]

\* the lines of a response body
BodyLines ==
    { <<"{", "l", "}">>, <<"{", "e", "}">>, <<"{", "r", "}">>, <<"{", "z", "}">>,
      <<"{", "l">>, <<" ">>, <<>> }

RECURSIVE Join(_)
Join(lines) ==
    IF Len(lines) = 0 THEN <<>>
    ELSE IF Len(lines) = 1 THEN lines[1]
    ELSE lines[1] \o <<NL>> \o Join(Tail(lines))

\* a body is its lines joined by newlines, with or without one at the end
BodyText(in) == Join(in.lines) \o (IF in.newlineAtEnd THEN <<NL>> ELSE <<>>)

ClientInputs ==
    { [lines |-> ls, newlineAtEnd |-> e] :
        ls \in UNION { [1..n -> BodyLines] : n \in 1..MaxLines },
        e \in BOOLEAN }

InitClient ==
    /\ ScanIdle
    /\ pc = "read"
    /\ fnIn \in ClientInputs
    /\ fnOut = <<>>
    /\ probes = <<>>
    /\ probePauses = 0
    /\ currentDate = Today
    /\ unread = BodyText(fnIn)
    /\ buffer = <<>>
    /\ handled = <<>>

\* reader.read() gives the next chunk, of any length
ReadChunk ==
    /\ pc = "read"
    /\ \E n \in 1..Len(unread) :
          LET value == SubSeq(unread, 1, n)
              lines == SplitNL(buffer \o value)
          IN  /\ unread' = SubSeq(unread, n + 1, Len(unread))
              /\ buffer' = Pop(lines)
              /\ handled' = HandleLines(handled, SubSeq(lines, 1, Len(lines) - 1))
    /\ UNCHANGED <<pc, fnIn, fnOut, probes, probePauses, currentDate>>
    /\ UNCHANGED scanVars

\* reader.read() gives done: what is left in the buffer is handled
ReadDone ==
    /\ pc = "read"
    /\ unread = <<>>
    /\ handled' = HandleLine(handled, buffer)
    /\ pc' = "done"
    /\ UNCHANGED <<unread, buffer, fnIn, fnOut, probes, probePauses, currentDate>>
    /\ UNCHANGED scanVars

NextClient ==
    \/ ReadChunk
    \/ ReadDone

SpecClient == InitClient /\ [][NextClient]_vars

\* ===================================================================== claims
MinPrice == Nullish(body.minPrice, DefaultMinPrice)

MaxPrice == Nullish(body.maxPrice, DefaultMaxPrice)

\* two representations of one instrument: the 4-character code and the
\* 5-character code with the padding digit 0
FourChar(code) ==
    IF Len(code) = 5 /\ code[5] = 0 THEN SubSeq(code, 1, 4) ELSE code

SameInstrument(a, b) == FourChar(a) = FourChar(b)

\* C1: a scan that reached per-instrument scanning (the price-filtered list is
\* nonempty) never emits more than one "result" record, and when its stream is
\* closed it holds exactly one, which is the last record; nothing runs after
\* the close.
C1_ExactlyOneResultLast ==
    /\ stream.result <= 1
    /\ closed <=> pc = "done"
    /\ (priceFilteredStocks # <<>> /\ closed) =>
          /\ stream.result = 1
          /\ stream.last = "result"
          /\ resultData # <<>>
    /\ (priceFilteredStocks # <<>> /\ ~closed) => stream.result = 0

\* a scan stopped on the failure budget before the end of the list, closed
C1_Witness ==
    /\ closed
    /\ errorCount = MaxErrors
    /\ i + 1 < Len(targetStocks)
    /\ stream.last = "result"

\* C2: the failure counter never exceeds 10, and once it is 10 the scan has
\* stopped: the instrument that failed is the last one whose history was
\* requested, and the rows collected so far are the rows of the final record.
C2_AbortAtBudget ==
    /\ errorCount <= MaxErrors
    /\ errorCount = MaxErrors =>
          /\ pc = "done"
          /\ closed
          /\ Len(histFetched) = i + 1
          /\ resultData # <<>>
          /\ resultData[1].results = results

\* an abort with rows collected and instruments left
C2_Witness ==
    /\ errorCount = MaxErrors
    /\ Len(results) > 0
    /\ Len(histFetched) < Len(targetStocks)
    /\ resultData # <<>>

\* C3: when the scan stops on an empty directory, an empty segment-filtered
\* universe or an empty snapshot, the last record is an "error" record, there
\* is no "result" record and no history request was issued.
C3_StructuralFailure ==
    closedAt \in {"noStockList", "noTargetMarket", "noPrices"} =>
        /\ closed
        /\ pc = "done"
        /\ stream.last = "error"
        /\ stream.result = 0
        /\ resultData = <<>>
        /\ histFetched = <<>>

\* the lookback window was exhausted without a nonempty snapshot
C3_Witness ==
    /\ closedAt = "noPrices"
    /\ Len(probes) = MaxDays + 1
    /\ tradeDate = <<>>
    /\ filteredStocks # <<>>

\* C4: a step in which processing an instrument raises an exception and the
\* counter stays below 10 adds exactly one to the counter, emits exactly one
\* "error" record and nothing else, leaves the rows alone, and leaves the scan
\* in the loop: waiting for the delay before the next instrument, or, after the
\* last instrument, at the normal end of the loop.
C4_ErrorIsRecoverable ==
    [][ (pc = "awaitHistory" /\ raised' = raised + 1 /\ errorCount' < MaxErrors) =>
          /\ errorCount' = errorCount + 1
          /\ stream'.error = stream.error + 1
          /\ results' = results
          /\ IF i + 1 < Len(targetStocks)
             THEN /\ pc' = "delay"
                  /\ i' = i
                  /\ ~closed'
                  /\ stream'.log = stream.log
                  /\ stream'.result = 0
             ELSE /\ closedAt' = "result"
                  /\ i' = Len(targetStocks) ]_vars

\* after an exception, with rows collected, the scan waits to go on
C4_Witness ==
    /\ pc = "delay"
    /\ stream.last = "error"
    /\ raised >= 1
    /\ raised < MaxErrors
    /\ Len(results) >= 1

\* C5: every history request after the first is preceded by one delay since
\* the previous history request.
C5_PauseBetweenInstruments ==
    Len(histFetched) >= 2 => pausesBeforeFetch = 1

\* C6: every code whose history is requested belongs to an instrument of the
\* segment-filtered directory and has a snapshot close in [minPrice, maxPrice].
C6_FetchedPassedBothFilters ==
    \A j \in 1..Len(histFetched) :
        /\ \E s \in 1..Len(filteredStocks) :
              /\ SameInstrument(filteredStocks[s].Code, histFetched[j])
              /\ IsTargetMarket(filteredStocks[s])
        /\ \E r \in 1..Len(priceFilteredStocks) :
              /\ priceFilteredStocks[r].code = histFetched[j]
              /\ priceFilteredStocks[r].latestPrice >= MinPrice
              /\ priceFilteredStocks[r].latestPrice <= MaxPrice

\* C7 as stated: with the credential unavailable the closed stream is exactly
\* one record, of type "error", and no upstream request was issued.
C7_SingleErrorRecord ==
    (keyFile # "ok" /\ closed) =>
        /\ stream = [log |-> 0, error |-> 1, result |-> 0, last |-> "error"]
        /\ dirRequests = 0
        /\ probes = <<>>
        /\ histFetched = <<>>

\* C7 amended: with the credential unavailable no upstream request is ever
\* issued, and the closed stream is the two "log" records emitted before the
\* credential is read followed by exactly one "error" record, which is last.
C7_TwoLogsThenError ==
    keyFile # "ok" =>
        /\ dirRequests = 0
        /\ probes = <<>>
        /\ histFetched = <<>>
        /\ IF pc = "done"
           THEN /\ closed
                /\ closedAt = "catch"
                /\ stream = [log |-> 2, error |-> 1, result |-> 0, last |-> "error"]
           ELSE /\ ~closed
                /\ stream = EmptyStream

\* the key file is missing and the scan is over
C7_Witness ==
    /\ keyFile = "missing"
    /\ pc = "done"
    /\ closed

\* C8: when the request supplies maxStocks, at most maxStocks histories are
\* requested, for the first entries of the price-filtered list.
C8_MaxStocksCaps ==
    body.maxStocks # <<>> =>
        /\ Len(histFetched) <= body.maxStocks[1]
        /\ \A j \in 1..Len(histFetched) :
              /\ j <= Len(priceFilteredStocks)
              /\ histFetched[j] = priceFilteredStocks[j].code

\* C9 as stated: the first count of the summary is the number of instruments
\* the loop started to process.
C9_SummaryCountsStarted ==
    resultData # <<>> =>
        resultData[1].summary.targetStocks = Len(histFetched)

\* C9 amended: the first count of the summary is the length of the capped
\* price-filtered list; it is the number of instruments the loop started to
\* process exactly when the loop reached the last instrument of the list.
C9_SummaryCountsTargets ==
    resultData # <<>> =>
        /\ resultData[1].summary.targetStocks = Len(targetStocks)
        /\ resultData[1].summary.targetStocks =
              Len(TargetStocks(body.maxStocks, priceFilteredStocks))
        /\ (resultData[1].summary.targetStocks = Len(histFetched))
              <=> (i + 1 >= Len(targetStocks))

\* a final record after an abort that left instruments unprocessed
C9_Witness ==
    /\ resultData # <<>>
    /\ errorCount = MaxErrors
    /\ Len(histFetched) + 2 <= Len(targetStocks)

\* C10: the failure counter is the number of instruments whose processing
\* raised an exception (so an empty history never changes it), and the final
\* record reports that number, also after an abort.
C10_FailureCountIsTrue ==
    /\ errorCount = raised
    /\ resultData # <<>> => resultData[1].summary.errors = raised

\* an abort at 10 failures in which the failing instrument came right after
\* an instrument without data
C10_Witness ==
    /\ resultData # <<>>
    /\ raised = MaxErrors
    /\ Len(histFetched) > raised
    /\ pausesBeforeFetch = 0

\* ----------------------------------------------- getAllStocksLatestPrices
Window(in) == (Today - in.maxDays)..Today

DataDays(in) == { d \in Window(in) : in.hasData[d] }

\* the first day with data, going backward from the end date
FirstDataDay(in) == CHOOSE d \in DataDays(in) : \A e \in DataDays(in) : e <= d

\* C11: the probes are for the end date, the day before, and so on, one
\* each; none is for a day before the first day with data; and when there is
\* such a day the function returns the bars of that day with tradeDate that
\* day, after one probe for each day from the end date down to it.
C11_FirstDayWithData ==
    /\ \A k \in 1..Len(probes) : probes[k] = Today - (k - 1)
    /\ DataDays(fnIn) # {} =>
          /\ \A k \in 1..Len(probes) : probes[k] >= FirstDataDay(fnIn)
          /\ pc = "returned" =>
                /\ fnOut[1].tradeDate = <<FirstDataDay(fnIn)>>
                /\ fnOut[1].prices = MapPriceData(DailySmall(FirstDataDay(fnIn)))
                /\ Len(probes) = Today - FirstDataDay(fnIn) + 1

\* no data on the 3 most recent days, data on the 4th, lookback 7: 4 probes
C11_Witness ==
    /\ pc = "returned"
    /\ fnIn.maxDays = 7
    /\ DataDays(fnIn) # {}
    /\ FirstDataDay(fnIn) = Today - 3
    /\ fnIn.hasData[Today - 5]
    /\ Len(probes) = 4
    /\ fnOut[1].tradeDate = <<Today - 3>>

\* C12: whatever the source answers, the function returns, after probes for
\* at most maxDays + 1 distinct days; without a day with data in the window it
\* returns no prices and a null tradeDate; and in every return value the
\* prices are empty exactly when tradeDate is null.
C12_BoundedLookback ==
    /\ [](/\ Len(probes) <= fnIn.maxDays + 1
          /\ \A k, l \in 1..Len(probes) : k # l => probes[k] # probes[l]
          /\ pc = "returned" =>
                /\ (fnOut[1].prices = <<>>) <=> (fnOut[1].tradeDate = <<>>)
                /\ DataDays(fnIn) = {} =>
                      /\ fnOut[1].prices = <<>>
                      /\ fnOut[1].tradeDate = <<>>)
    /\ <>(pc = "returned")

\* the whole window was probed without a result, though the day before the
\* window has data
C12_Witness ==
    /\ pc = "returned"
    /\ fnIn.maxDays = 7
    /\ Len(probes) = 8
    /\ fnIn.hasData[Today - 8]
    /\ fnOut[1].tradeDate = <<>>

\* C13: when probe number k is issued exactly k - 1 pauses have been made, so
\* exactly one pause separates two consecutive probes; a return with bars
\* adds no pause, and the return of the empty result comes after one more
\* pause, that after the last probe.
C13_OnePauseBetweenProbes ==
    /\ pc \in {"probing", "pausing"} => probePauses = Len(probes) - 1
    /\ (pc = "returned" /\ fnOut[1].tradeDate # <<>>) =>
          probePauses = Len(probes) - 1
    /\ (pc = "returned" /\ fnOut[1].tradeDate = <<>>) =>
          probePauses = Len(probes)

\* three probes without data, the third being the last of the window
C13_Witness ==
    /\ pc = "returned"
    /\ fnIn.maxDays = 2
    /\ fnOut[1].tradeDate = <<>>
    /\ probePauses = 3

\* ------------------------------------------------------------ normalizeCode
\* C14: a 4-character code and the same code followed by the padding digit 0
\* have the same normalized key, and a 5-character code that does not end in
\* 0 is left as it is.
C14_FourAndFiveCharSameKey ==
    pc = "returned" =>
        /\ Len(fnIn) = 4 => fnOut[1] = normalizeCode(Append(fnIn, 0))
        /\ (Len(fnIn) = 5 /\ fnIn[5] # 0) => fnOut[1] = fnIn

\* C15: normalizing a normalized code changes nothing.
C15_NormalizeIdempotent ==
    pc = "returned" => normalizeCode(fnOut[1]) = fnOut[1]

\* ------------------------------------------------------ filterStocksByPrice
Range(seq) == { seq[k] : k \in 1..Len(seq) }

PermsOf(n) == { f \in [1..n -> 1..n] : \A a, b \in 1..n : a # b => f[a] # f[b] }

Permuted(seq, f) == [k \in 1..Len(seq) |-> seq[f[k]]]

KeysOf(prices) == { normalizeCode(prices[k].Code) : k \in 1..Len(prices) }

\* bars of one code have different dates
DistinctDates(prices) ==
    \A a, b \in 1..Len(prices) :
        (a # b /\ normalizeCode(prices[a].Code) = normalizeCode(prices[b].Code))
            => prices[a].Date # prices[b].Date

\* the position of the latest bar of a code: no bar of the code is dated
\* later, and none before it in the list is dated the same
LatestIndex(prices, code) ==
    CHOOSE a \in 1..Len(prices) :
        /\ normalizeCode(prices[a].Code) = code
        /\ \A b \in 1..Len(prices) :
              normalizeCode(prices[b].Code) = code =>
                  \/ prices[b].Date < prices[a].Date
                  \/ (prices[b].Date = prices[a].Date /\ a <= b)

LatestBar(prices, code) == prices[LatestIndex(prices, code)]

\* C16: the latest-snapshot map has exactly one entry for each normalized
\* code of the bars; when the bars of one code all have different dates the
\* entry is the bar with the latest date; the output has at most one row for
\* a code, and every permutation of such bars gives the same set of rows.
C16_LatestBarWhateverTheOrder ==
    pc = "returned" =>
        LET m == BuildLatestPricesMap(fnIn.prices, <<>>)
        IN  /\ { m[k][1] : k \in 1..Len(m) } = KeysOf(fnIn.prices)
            /\ \A a, b \in 1..Len(m) : a # b => m[a][1] # m[b][1]
            /\ \A a, b \in 1..Len(fnOut[1]) :
                  a # b => fnOut[1][a].code # fnOut[1][b].code
            /\ DistinctDates(fnIn.prices) =>
                  /\ \A k \in 1..Len(m) :
                        /\ m[k][2].Date = LatestBar(fnIn.prices, m[k][1]).Date
                        /\ m[k][2].Close = LatestBar(fnIn.prices, m[k][1]).Close
                        /\ \A b \in 1..Len(fnIn.prices) :
                              normalizeCode(fnIn.prices[b].Code) = m[k][1]
                                  => fnIn.prices[b].Date <= m[k][2].Date
                  /\ \A f \in PermsOf(Len(fnIn.prices)) :
                        Range(filterStocksByPrice(Permuted(fnIn.prices, f),
                                  fnIn.stocks, fnIn.minPrice, fnIn.maxPrice))
                            = Range(fnOut[1])

\* the later bar of a code comes first in the list, with another close, and
\* only the later one is in the band
C16_Witness ==
    /\ pc = "returned"
    /\ Len(fnIn.prices) = 3
    /\ DistinctDates(fnIn.prices)
    /\ fnIn.prices[1].Code = CodeA /\ fnIn.prices[1].Date = Today
    /\ fnIn.prices[3].Code = CodeA /\ fnIn.prices[3].Date = Today - 1
    /\ fnIn.prices[1].Close = DefaultMinPrice
    /\ fnIn.prices[3].Close = DefaultMaxPrice
    /\ fnIn.maxPrice = DefaultMaxPrice - 1
    /\ Len(fnOut[1]) = 1

\* C17: there is a row for a normalized code exactly when the close of the
\* latest bar of that code is in [minPrice, maxPrice], both bounds included;
\* the row carries that close, and the name and market of the instrument of
\* the list with that key, or empty ones when the list has none.
C17_RowIffCloseInBand ==
    pc = "returned" =>
        /\ { fnOut[1][k].code : k \in 1..Len(fnOut[1]) } =
              { c \in KeysOf(fnIn.prices) :
                    /\ fnIn.minPrice <= LatestBar(fnIn.prices, c).Close
                    /\ LatestBar(fnIn.prices, c).Close <= fnIn.maxPrice }
        /\ \A k \in 1..Len(fnOut[1]) :
              LET row == fnOut[1][k]
                  listed == { j \in 1..Len(fnIn.stocks) :
                                normalizeCode(fnIn.stocks[j].Code) = row.code }
              IN  /\ row.latestPrice = LatestBar(fnIn.prices, row.code).Close
                  /\ listed = {} => (row.companyName = <<>> /\ row.market = <<>>)
                  /\ \A j \in listed :
                        /\ row.companyName = fnIn.stocks[j].CoName
                        /\ row.market = fnIn.stocks[j].MktNm

\* closes exactly at minPrice and at maxPrice, one of them of a code that the
\* list does not have
C17_Witness ==
    /\ pc = "returned"
    /\ Len(fnIn.prices) = 2
    /\ fnIn.prices[1].Code = CodeA /\ fnIn.prices[1].Close = fnIn.minPrice
    /\ fnIn.prices[2].Code = CodeB /\ fnIn.prices[2].Close = fnIn.maxPrice
    /\ Len(fnIn.stocks) = 1
    /\ Len(fnOut[1]) = 2
    /\ fnOut[1][2].companyName = <<>>
    /\ fnOut[1][1].companyName = <<1>>

\* ---------------------------------------------------------- detectStopHigh
\* the bars of the series have different dates
DistinctSeriesDates(prices) ==
    \A a, b \in 1..Len(prices) : a # b => prices[a].Date # prices[b].Date

\* positions of the bars dated before the bar at position k
Earlier(prices, k) == { a \in 1..Len(prices) : prices[a].Date < prices[k].Date }

\* position of the bar of the previous day of the series
PrevIndex(prices, k) ==
    CHOOSE a \in Earlier(prices, k) :
        \A b \in Earlier(prices, k) : prices[b].Date <= prices[a].Date

\* (high - previous close) / previous close >= tn / td
Flagged(prices, k, tn, td) ==
    /\ Earlier(prices, k) # {}
    /\ (prices[k].High - prices[PrevIndex(prices, k)].Close) * td
          >= tn * prices[PrevIndex(prices, k)].Close

FlaggedDays(prices, tn, td) ==
    { k \in 1..Len(prices) : Flagged(prices, k, tn, td) }

LastFlagged(prices, tn, td) ==
    CHOOSE k \in FlaggedDays(prices, tn, td) :
        \A l \in FlaggedDays(prices, tn, td) : prices[l].Date <= prices[k].Date

\* C18: for a series with different dates, count is the number of days whose
\* high is at least the threshold fraction above the close of the previous day
\* of the series, latestDate and latestPrice are the date and the high of the
\* last such day, and without such a day (so also with fewer than 2 bars) the
\* result is count 0, null date and price and three false flags.
C18_FlagsDayIffRiseAtLeastThreshold ==
    (pc = "returned" /\ DistinctSeriesDates(fnIn.prices)) =>
        LET r == fnOut[1].result
            days == FlaggedDays(fnIn.prices, fnIn.tn, fnIn.td)
        IN  /\ r.count = Cardinality(days)
            /\ Len(fnIn.prices) < 2 => days = {}
            /\ IF days = {}
               THEN r = ZeroResult
               ELSE LET k == LastFlagged(fnIn.prices, fnIn.tn, fnIn.td)
                    IN  /\ r.latestDate = <<fnIn.prices[k].Date>>
                        /\ r.latestPrice = <<fnIn.prices[k].High>>

\* three bars given latest first: a rise of exactly 13 % on the second day is
\* counted at the threshold 0.13, the third day has no rise
C18_Witness ==
    /\ pc = "returned"
    /\ fnIn.tn = ThresholdNum /\ fnIn.td = ThresholdDen
    /\ Len(fnIn.prices) = 3
    /\ fnIn.prices[1].Date = Today - 1 /\ fnIn.prices[1].High = 113
    /\ fnIn.prices[2].Date = Today - 3 /\ fnIn.prices[2].High = 113
    /\ fnIn.prices[3].Date = Today - 4 /\ fnIn.prices[3].Close = 100
    /\ fnOut[1].result.count = 1
    /\ fnOut[1].result.latestDate = <<Today - 3>>

Outstanding == dirRequests + Len(probes) + Len(histFetched) - responses

Awaiting == pc \in {"awaitDirectory", "awaitProbe", "awaitHistory"}

\* the history requests so far are those of the first instruments of
\* targetStocks, in order
FetchedInListOrder ==
    /\ Len(histFetched) <= Len(targetStocks)
    /\ \A j \in 1..Len(histFetched) : histFetched[j] = targetStocks[j].code
    /\ \A j, k \in 1..Len(histFetched) : j # k => histFetched[j] # histFetched[k]

\* C20: at most one request to the source is unanswered at any time (exactly
\* one while POST waits for an answer), history requests follow targetStocks
\* in order with no instrument asked twice, every answer to a history request
\* puts the instrument's record on the stream, and a history request after the
\* first is sent one at a time, either after the delay or in the step that
\* has just put the previous instrument's record on the stream.
C20_OneRequestAtATime ==
    /\ [](/\ Outstanding \in {0, 1}
          /\ Outstanding = 1 <=> Awaiting
          /\ FetchedInListOrder)
    /\ [][/\ (pc = "awaitHistory" /\ responses' # responses) =>
                StreamLen(stream') > StreamLen(stream)
          /\ Len(histFetched') # Len(histFetched) =>
                /\ Len(histFetched') = Len(histFetched) + 1
                /\ responses' - responses = Outstanding
                /\ histFetched # <<>> =>
                      \/ pc = "delay"
                      \/ /\ pc = "awaitHistory"
                         /\ StreamLen(stream') >= StreamLen(stream) + 2]_vars

\* the third history request is out, sent without a delay right after the
\* second instrument's record; one request had failed
C20_Witness ==
    /\ pc = "awaitHistory"
    /\ Len(histFetched) = 3
    /\ pausesBeforeFetch = 0
    /\ raised = 1
    /\ Outstanding = 1

\* ----------------------------------------------------------- handleExecute
\* the whole text read as one chunk, then done
HandledInOneChunk(text) ==
    LET lines == SplitNL(text)
    IN  HandleLine(HandleLines(<<>>, SubSeq(lines, 1, Len(lines) - 1)),
                   lines[Len(lines)])

\* what a line of the body stands for
CallFor(line) ==
    IF line \in { <<"{", "l", "}">>, <<"{", "e", "}">> }
    THEN << [call |-> "addLog", type |-> IF line[2] = "l" THEN "log" ELSE "error"] >>
    ELSE IF line = <<"{", "r", "}">>
    THEN << [call |-> "setResults", type |-> "result"] >>
    ELSE <<>>

RECURSIVE CallsFor(_)
CallsFor(lines) ==
    IF lines = <<>> THEN <<>> ELSE CallFor(Head(lines)) \o CallsFor(Tail(lines))

\* C21: however the body is cut into chunks, the calls made when the stream
\* has ended are those made when the whole body comes in one chunk, and they
\* are the calls of the well-formed lines in order: a last record without a
\* newline is handled, a malformed or blank line is passed over.
C21_ChunkingDoesNotMatter ==
    pc = "done" =>
        /\ handled = HandledInOneChunk(BodyText(fnIn))
        /\ handled = CallsFor(fnIn.lines)

\* a malformed line, then a log, then a result with no newline at the end
C21_Witness ==
    /\ pc = "done"
    /\ fnIn.lines = << <<"{", "l">>, <<"{", "l", "}">>, <<"{", "r", "}">> >>
    /\ ~fnIn.newlineAtEnd
    /\ Len(handled) = 2

\* ------------------------------------------------------------ the row list
\* the bars the source holds for a code, as getStockPriceThreeMonths maps them
SeriesOf(code) == MapPriceData(HistoryOf(code))

\* the number of flagged days of that series at the threshold POST passes
ExpectedCount(code) ==
    Cardinality(FlaggedDays(SeriesOf(code), ThresholdNum, ThresholdDen))

\* the close of the bar with the latest date
LastBarClose(code) ==
    LET ps == SeriesOf(code)
        k == CHOOSE a \in 1..Len(ps) : \A b \in 1..Len(ps) : ps[b].Date <= ps[a].Date
    IN  ps[k].Close

\* instruments whose history request has been answered
Processed == Len(histFetched) - (IF pc = "awaitHistory" THEN 1 ELSE 0)

\* C22: the rows collected are rows of instruments processed so far, one per
\* instrument and in list order, each with the positive count of its series
\* and the close of the latest bar of the series; the final record carries
\* these rows; and the answer to a history request adds a row exactly when it
\* is a nonempty series with a flagged day (not when it raised, was empty or
\* had no flagged day).
C22_RowsAreTheDetectedInstruments ==
    /\ [](/\ \A k \in 1..Len(results) :
                /\ \E j \in 1..Processed : targetStocks[j].code = results[k].code
                /\ ExpectedCount(results[k].code) > 0
                /\ results[k].count = ExpectedCount(results[k].code)
                /\ results[k].latestClose = <<LastBarClose(results[k].code)>>
          /\ \A k, l \in 1..Len(results) :
                k < l => \E j, m \in 1..Processed :
                            /\ j < m
                            /\ targetStocks[j].code = results[k].code
                            /\ targetStocks[m].code = results[l].code
          /\ resultData # <<>> => resultData[1].results = results)
    /\ [][(pc = "awaitHistory" /\ responses' # responses) =>
            IF lastAnswer' = "series" /\ ExpectedCount(targetStocks[i + 1].code) > 0
            THEN /\ Len(results') = Len(results) + 1
                 /\ SubSeq(results', 1, Len(results)) = results
                 /\ results'[Len(results')].code = targetStocks[i + 1].code
            ELSE results' = results]_vars

\* the final record after an abort on a failure: it has rows, one of them of
\* a series that the source sent out of order
C22_Witness ==
    /\ resultData # <<>>
    /\ lastAnswer = "raised"
    /\ errorCount = MaxErrors
    /\ Len(resultData[1].results) >= 2
    /\ \E k \in 1..Len(results) : results[k].latestClose = <<128>>

C24_OpeningImpliesClosed ==
    (pc = "returned" /\ fnOut[1].result.openingStopHigh) =>
        fnOut[1].result.closedAtStopHigh

====
